---- MODULE Spec2Model ----
(***************************************************************************)
(* manif: De Casteljau curve fitting on a Lie group                        *)
(* (include/manif/algorithms/decasteljau.h) and the SE(3) group element    *)
(* (include/manif/impl/se3/SE3_base.h).                                    *)
(*                                                                         *)
(* Spec     : one call of decasteljau(trajectory, degree, k_interp,        *)
(*            closed_curve), statement by statement.                       *)
(* SpecSE3  : an SE3 object under setIdentity / inverse / compose / act.   *)
(***************************************************************************)
EXTENDS Integers, Sequences, FiniteSets

VARIABLES
  trajectory,               \* const std::vector<Manifold>& trajectory
  degree,                   \* const unsigned int degree
  k_interp,                 \* const unsigned int k_interp
  closed_curve,             \* const bool closed_curve
  pc,                       \* position in decasteljau (source line of the next statement)
  n_segments,               \* const unsigned int n_segments
  segments_control_points,  \* vector<vector<const Manifold*>>; a pointer is a trajectory index
  last_pts_idx,             \* const int last_pts_idx
  segment_k_interp,         \* const int segment_k_interp
  curve,                    \* std::vector<Manifold> curve
  s,                        \* loop variable of line 76
  t,                        \* loop variable of line 78
  Qs,                       \* working point list of line 83
  i,                        \* loop variable of line 88
  coeffs,                   \* SE3 coefficient vector <<x, y, z, qx, qy, qz, qw>>
  call,                     \* the last SE3 member call and its arguments
  result,                   \* what that call returned (or how it failed)
  J_vout_v                  \* the caller's Jacobian slot handed to act()

dcvars == <<trajectory, degree, k_interp, closed_curve, pc, n_segments,
            segments_control_points, last_pts_idx, segment_k_interp, curve,
            s, t, Qs, i>>
se3vars == <<coeffs, call, result, J_vout_v>>
vars == <<dcvars, se3vars>>

---------------------------------------------------------------------------
(* Bounds of the model *)

\* longest trajectory handed to decasteljau
MaxLen == 7
\* largest k_interp handed to decasteljau
MaxK == 5
\* largest absolute value of an SE3 translation coordinate
MaxT == 1

\* TLC evaluates in 32-bit integers
IntMax == 2147483646 + 1

---------------------------------------------------------------------------
(* Exact arithmetic *)

Abs(x) == IF x < 0 THEN -x ELSE x

RECURSIVE GCD(_, _)
GCD(a, b) == IF b = 0 THEN a ELSE GCD(b, a % b)

LCM(a, b) == (a \div GCD(a, b)) * b

RECURSIVE VecGCD(_, _, _)
VecGCD(v, k, g) == IF k = 0 THEN g ELSE VecGCD(v, k - 1, GCD(g, Abs(v[k])))

\* the rational vector n/d in lowest terms
Normalize(n, d) ==
  LET g == VecGCD(n, Len(n), d)
  IN  [n |-> [k \in 1..Len(n) |-> n[k] \div g], d |-> d \div g]

\* whether acc * base^e stays within IntMax
RECURSIVE PowFits(_, _, _)
PowFits(base, e, acc) ==
  IF e <= 0 THEN TRUE
  ELSE IF base = 0 THEN TRUE
  ELSE IF acc > IntMax \div base THEN FALSE
  ELSE PowFits(base, e - 1, acc * base)

---------------------------------------------------------------------------
(* The Lie group the trajectory lives in: the translation group R^D, its   *)
(* elements exact rational vectors [n |-> numerators, d |-> denominator].  *)
(* Its tangent space is R^D again; exp and log are the identity chart.    *)

\* a.rminus(b): the tangent that, applied to b, yields a
rminus(a, b) ==
  LET L == LCM(a.d, b.d)
  IN  Normalize([k \in 1..Len(a.n) |-> a.n[k] * (L \div a.d) - b.n[k] * (L \div b.d)], L)

\* tangent * t_01, with t_01 the ratio tnum/tden
TangentTimes(tau, tnum, tden) ==
  Normalize([k \in 1..Len(tau.n) |-> tau.n[k] * tnum], tau.d * tden)

\* a.rplus(tau): a composed with exp(tau)
rplus(a, tau) ==
  LET L == LCM(a.d, tau.d)
  IN  Normalize([k \in 1..Len(a.n) |-> a.n[k] * (L \div a.d) + tau.n[k] * (L \div tau.d)], L)

\* the k0-th unit translation of R^D (k0 counted from 0)
UnitPoint(k0, D) == [n |-> [k \in 1..D |-> IF k = k0 + 1 THEN 1 ELSE 0], d |-> 1]

---------------------------------------------------------------------------
(* decasteljau: inputs *)

\* "distinct": len pairwise different points; "loop": the last point repeats the first
Shapes == {"distinct", "loop"}

TrajectoryOf(shape, len) ==
  [k \in 1..len |->
     IF shape = "loop" /\ k = len THEN UnitPoint(0, len) ELSE UnitPoint(k - 1, len)]

\* trajectory[idx], idx counted from 0 as in the source
At(seq, idx) == seq[idx + 1]

size == Len(trajectory)

\* line 71-72, as a function of the inputs
SegKOf(deg, k) == IF deg = 2 THEN k ELSE k * deg

\* the sampled points of a call with these inputs have denominators up to
\* segment_k_interp^(degree-1); the model takes the calls whose arithmetic
\* stays inside TLC's integers
Representable(deg, k) == PowFits(SegKOf(deg, k), deg - 1, 1)

---------------------------------------------------------------------------
(* decasteljau: the statements *)

\* MANIF_CHECK(cond, msg): go on when cond holds, else a fatal failure of the call
MANIF_CHECK(cond, next) == IF cond THEN next ELSE "precondition_failed"

\* line 31
SizeOk == size > 2
\* line 32
DegreeOk == degree <= size
\* line 33 with >= for >
KInterpOk_NonNegative == k_interp >= 0
\* line 33
KInterpOk == k_interp > 0

CheckSize ==
  /\ pc = "line31"
  /\ pc' = MANIF_CHECK(SizeOk, "line32")
  /\ UNCHANGED <<trajectory, degree, k_interp, closed_curve, n_segments,
                 segments_control_points, last_pts_idx, segment_k_interp,
                 curve, s, t, Qs, i, se3vars>>

CheckDegree ==
  /\ pc = "line32"
  /\ pc' = MANIF_CHECK(DegreeOk, "line33")
  /\ UNCHANGED <<trajectory, degree, k_interp, closed_curve, n_segments,
                 segments_control_points, last_pts_idx, segment_k_interp,
                 curve, s, t, Qs, i, se3vars>>

CheckKInterp ==
  /\ pc = "line33"
  /\ pc' = MANIF_CHECK(KInterpOk, "line36")
  /\ UNCHANGED <<trajectory, degree, k_interp, closed_curve, n_segments,
                 segments_control_points, last_pts_idx, segment_k_interp,
                 curve, s, t, Qs, i, se3vars>>

\* line 36-37: std::floor(double(trajectory.size()-degree)/(degree-1)+1) stored
\* in an unsigned int.  degree-1 is unsigned arithmetic:
\*   degree >= 2: the quotient of two small non-negative integers;
\*   degree = 0 : degree-1 wraps to 2^32-1, the quotient lies in (0,1) for
\*                every size below 2^32-1, so floor(quotient+1) = 1;
\*   degree = 1 : the divisor is 0, the quotient +inf, and converting +inf to
\*                unsigned int is undefined: builds that truncate through a
\*                64-bit register store 0; every other outcome (saturation to
\*                2^32-1 and the allocation of that many segments, a trap)
\*                is the position "ub".
NSegmentsOutcomes ==
  IF degree = 1
    THEN {[n |-> 0, pc |-> "line40"], [n |-> 0, pc |-> "ub"]}
    ELSE IF degree = 0
      THEN {[n |-> 1, pc |-> "line40"]}
      ELSE {[n |-> (size - degree) \div (degree - 1) + 1, pc |-> "line40"]}

ComputeNSegments ==
  /\ pc = "line36"
  /\ \E o \in NSegmentsOutcomes :
       /\ n_segments' = o.n
       /\ pc' = o.pc
  /\ UNCHANGED <<trajectory, degree, k_interp, closed_curve,
                 segments_control_points, last_pts_idx, segment_k_interp,
                 curve, s, t, Qs, i, se3vars>>

\* line 47 with windows advancing by degree: t*degree+n
Window_NoSharedEndpoint(seg) == [n \in 1..degree |-> seg * degree + (n - 1)]

\* line 45-48: the trajectory indices of segment seg (counted from 0)
Window(seg) == [n \in 1..degree |-> seg * (degree - 1) + (n - 1)]

\* every &trajectory[idx] of a segment points into the trajectory
InBounds(w) == \A n \in 1..Len(w) : w[n] >= 0 /\ w[n] < size

\* line 40-49, one round of the outer loop
BuildSegment ==
  /\ pc = "line40"
  /\ Len(segments_control_points) < n_segments
  /\ LET w == Window(Len(segments_control_points))
     IN  IF InBounds(w)
           THEN /\ segments_control_points' = Append(segments_control_points, w)
                /\ pc' = pc
           ELSE /\ pc' = "ub"
                /\ UNCHANGED segments_control_points
  /\ UNCHANGED <<trajectory, degree, k_interp, closed_curve, n_segments,
                 last_pts_idx, segment_k_interp, curve, s, t, Qs, i, se3vars>>

\* line 51: (n_segments)*(degree-1) is an unsigned product converted to int;
\* for degree = 0 it is n_segments*(2^32-1) mod 2^32 = 2^32-n_segments, as int -n_segments
LastPtsIdx == IF degree = 0 THEN 0 - n_segments ELSE n_segments * (degree - 1)

\* line 54: last_pts_idx is converted to size_t for the comparison, a negative
\* value becoming larger than any size
CloseCond(last) == closed_curve /\ last >= 0 /\ last <= size - 1

\* line 56
LeftOver(last) == size - 1 - last

\* line 65 with the bound degree-left_over
ExtraPts_OffByOne(last) == degree - LeftOver(last)

\* line 65: the bound degree-left_over-1 of the second loop, unsigned
ExtraPts(last) == degree - LeftOver(last) - 1

\* line 57-68: the control points of the closing segment
ClosingSegment(last) ==
  [n \in 1..(LeftOver(last) + 1) |-> last + (n - 1)]
    \o [n \in 1..ExtraPts(last) |-> n - 1]

\* line 51-69, entered when the loop of line 40 ends.  A negative
\* degree-left_over-1 wraps to an unsigned bound near 2^32 and the loop of
\* line 65 walks past the end of the trajectory.
CloseCurve ==
  /\ pc = "line40"
  /\ ~(Len(segments_control_points) < n_segments)
  /\ LET last == LastPtsIdx
     IN  /\ last_pts_idx' = last
         /\ IF CloseCond(last)
              THEN IF ExtraPts(last) >= 0 /\ InBounds(ClosingSegment(last))
                     THEN /\ segments_control_points' =
                               Append(segments_control_points, ClosingSegment(last))
                          /\ pc' = "line71"
                     ELSE /\ pc' = "ub"
                          /\ UNCHANGED segments_control_points
              ELSE /\ pc' = "line71"
                   /\ UNCHANGED segments_control_points
  /\ UNCHANGED <<trajectory, degree, k_interp, closed_curve, n_segments,
                 segment_k_interp, curve, s, t, Qs, i, se3vars>>

\* line 71-75, and the initialisation of the loops of lines 76 and 78
SegmentKInterp ==
  /\ pc = "line71"
  /\ segment_k_interp' = (IF degree = 2 THEN k_interp ELSE k_interp * degree)
  /\ s' = 0
  /\ t' = 1
  /\ pc' = "line76"
  /\ UNCHANGED <<trajectory, degree, k_interp, closed_curve, n_segments,
                 segments_control_points, last_pts_idx, curve, Qs, i, se3vars>>

\* line 85-86: copies of the control points of segment seg
ControlPoints(seg) ==
  [n \in 1..Len(At(segments_control_points, seg)) |->
     At(trajectory, At(segments_control_points, seg)[n])]

\* line 78-87: one more sample of segment s
SampleStart ==
  /\ pc = "line76"
  /\ s < Len(segments_control_points)
  /\ t <= segment_k_interp
  /\ Qs' = ControlPoints(s)
  /\ i' = 0
  /\ pc' = "line88"
  /\ UNCHANGED <<trajectory, degree, k_interp, closed_curve, n_segments,
                 segments_control_points, last_pts_idx, segment_k_interp,
                 curve, s, t, se3vars>>

\* line 76: the samples of segment s are done
NextSegment ==
  /\ pc = "line76"
  /\ s < Len(segments_control_points)
  /\ ~(t <= segment_k_interp)
  /\ s' = s + 1
  /\ t' = 1
  /\ UNCHANGED <<trajectory, degree, k_interp, closed_curve, pc, n_segments,
                 segments_control_points, last_pts_idx, segment_k_interp,
                 curve, Qs, i, se3vars>>

\* line 88: i<degree-1 compares as unsigned; for degree = 0 the bound is 2^32-1
MoreRounds == IF degree = 0 THEN TRUE ELSE i < degree - 1

\* line 92 with the two points exchanged
Blend_Reversed(Q0, Q1, tnum, tden) == rplus(Q1, TangentTimes(rminus(Q0, Q1), tnum, tden))

\* line 92: Qs[q].rplus(Qs[q+1].rminus(Qs[q]) * t_01), t_01 = tnum/tden (line 81)
Blend(Q0, Q1, tnum, tden) == rplus(Q0, TangentTimes(rminus(Q1, Q0), tnum, tden))

\* line 90-96: one round over the adjacent pairs of the list
Round(list, tnum, tden) ==
  [q \in 1..(Len(list) - 1) |-> Blend(list[q], list[q + 1], tnum, tden)]

\* line 88-97, one round.  With an empty Qs the bound Qs.size()-1 wraps and
\* Qs[q+1] reads outside the list.
BlendRound ==
  /\ pc = "line88"
  /\ MoreRounds
  /\ IF Len(Qs) >= 1
       THEN /\ Qs' = Round(Qs, t, segment_k_interp)
            /\ i' = i + 1
            /\ pc' = pc
       ELSE /\ pc' = "ub"
            /\ UNCHANGED <<Qs, i>>
  /\ UNCHANGED <<trajectory, degree, k_interp, closed_curve, n_segments,
                 segments_control_points, last_pts_idx, segment_k_interp,
                 curve, s, t, se3vars>>

\* line 99, and ++t of line 78.  Qs[0] of an empty list is a read outside it.
PushSample ==
  /\ pc = "line88"
  /\ ~MoreRounds
  /\ IF Len(Qs) >= 1
       THEN /\ curve' = Append(curve, Qs[1])
            /\ t' = t + 1
            /\ pc' = "line76"
       ELSE /\ pc' = "ub"
            /\ UNCHANGED <<curve, t>>
  /\ UNCHANGED <<trajectory, degree, k_interp, closed_curve, n_segments,
                 segments_control_points, last_pts_idx, segment_k_interp,
                 s, Qs, i, se3vars>>

\* line 103
Return ==
  /\ pc = "line76"
  /\ ~(s < Len(segments_control_points))
  /\ pc' = "done"
  /\ UNCHANGED <<trajectory, degree, k_interp, closed_curve, n_segments,
                 segments_control_points, last_pts_idx, segment_k_interp,
                 curve, s, t, Qs, i, se3vars>>

\* an SE3 object that is never touched while decasteljau runs
SE3Idle ==
  /\ coeffs = <<0, 0, 0, 0, 0, 0, 2>>
  /\ call = [op |-> "none"]
  /\ result = [kind |-> "none"]
  /\ J_vout_v = "unwritten"

Init ==
  /\ \E len \in 1..MaxLen, shape \in Shapes : trajectory = TrajectoryOf(shape, len)
  /\ degree \in 0..(MaxLen + 1)
  /\ k_interp \in 0..MaxK
  /\ Representable(degree, k_interp)
  /\ closed_curve \in BOOLEAN
  /\ pc = "line31"
  /\ n_segments = 0
  /\ segments_control_points = <<>>
  /\ last_pts_idx = 0
  /\ segment_k_interp = 0
  /\ curve = <<>>
  /\ s = 0
  /\ t = 0
  /\ Qs = <<>>
  /\ i = 0
  /\ SE3Idle

Next ==
  \/ CheckSize
  \/ CheckDegree
  \/ CheckKInterp
  \/ ComputeNSegments
  \/ BuildSegment
  \/ CloseCurve
  \/ SegmentKInterp
  \/ SampleStart
  \/ NextSegment
  \/ BlendRound
  \/ PushSample
  \/ Return

Spec == Init /\ [][Next]_vars

---------------------------------------------------------------------------
(* SE3: linear algebra on exact 3-vectors and 3x3 matrices (rows first) *)

VecAdd(a, b) == [k \in 1..3 |-> a[k] + b[k]]
VecNeg(a) == [k \in 1..3 |-> 0 - a[k]]
MatVec(M, v) == [r \in 1..3 |-> M[r][1] * v[1] + M[r][2] * v[2] + M[r][3] * v[3]]
Transpose(M) == [r \in 1..3 |-> [c \in 1..3 |-> M[c][r]]]

---------------------------------------------------------------------------
(* The embedded rotation (SO3, a unit quaternion <<x, y, z, w>>).  The      *)
(* quaternion coordinates are kept in half units: <<1,1,1,1>> is the unit  *)
(* quaternion (1/2, 1/2, 1/2, 1/2) and <<0,0,0,2>> the identity.  The 24   *)
(* Hurwitz units are exactly the unit quaternions with half-integer        *)
(* coordinates; their products and rotation matrices are exact.            *)

UnitQuaternions ==
  {q \in [1..4 -> -2..2] : q[1]*q[1] + q[2]*q[2] + q[3]*q[3] + q[4]*q[4] = 4}

\* SO3::rotation(): the rotation matrix of a unit quaternion
SO3Rotation(q) ==
  LET qx == q[1]  qy == q[2]  qz == q[3]  qw == q[4]
  IN  << << 1 - (qy*qy + qz*qz) \div 2, (qx*qy - qz*qw) \div 2, (qx*qz + qy*qw) \div 2 >>,
         << (qx*qy + qz*qw) \div 2, 1 - (qx*qx + qz*qz) \div 2, (qy*qz - qx*qw) \div 2 >>,
         << (qx*qz - qy*qw) \div 2, (qy*qz + qx*qw) \div 2, 1 - (qx*qx + qy*qy) \div 2 >> >>

\* SO3::inverse(): the conjugate quaternion
SO3Inverse(q) == << 0 - q[1], 0 - q[2], 0 - q[3], q[4] >>

\* SO3::compose(): the quaternion product a * b
SO3Compose(a, b) ==
  << (a[4]*b[1] + a[1]*b[4] + a[2]*b[3] - a[3]*b[2]) \div 2,
     (a[4]*b[2] - a[1]*b[3] + a[2]*b[4] + a[3]*b[1]) \div 2,
     (a[4]*b[3] + a[1]*b[2] - a[2]*b[1] + a[3]*b[4]) \div 2,
     (a[4]*b[4] - a[1]*b[1] - a[2]*b[2] - a[3]*b[3]) \div 2 >>

---------------------------------------------------------------------------
(* SE3Base: c is the coefficient vector <<x, y, z, qx, qy, qz, qw>> *)

\* SE3(translation, quaternion): the element with these coefficients
Manifold(tra, quat) == tra \o quat

\* SE3Base::asSO3(): coeffs().data()+3
asSO3(c) == SubSeq(c, 4, 7)

\* SE3Base::rotation()
rotation(c) == SO3Rotation(asSO3(c))

\* SE3Base::translation(): coeffs().head<3>()
translation(c) == SubSeq(c, 1, 3)

\* SE3Base::x(), y(), z()
x(c) == c[1]
y(c) == c[2]
z(c) == c[3]

\* SE3Base::transform(): the homogeneous 4x4 matrix
transform(c) ==
  LET R == rotation(c)
  IN  << << R[1][1], R[1][2], R[1][3], x(c) >>,
         << R[2][1], R[2][2], R[2][3], y(c) >>,
         << R[3][1], R[3][2], R[3][3], z(c) >>,
         << 0, 0, 0, 1 >> >>

\* Transformation * Vector: the transform applied to the point v
TransformTimes(T, v) ==
  [r \in 1..3 |-> T[r][1] * v[1] + T[r][2] * v[2] + T[r][3] * v[3] + T[r][4]]

\* SE3Base::setIdentity(): setZero(), then the identity quaternion
setIdentity(c) == Manifold(<<0, 0, 0>>, <<0, 0, 0, 2>>)

\* inverse() with the rotation not transposed: -R t
inverse_NoTranspose(c) ==
  Manifold(MatVec(rotation(c), VecNeg(translation(c))), SO3Inverse(asSO3(c)))

\* SE3Base::inverse(), no Jacobian requested
inverse(c) ==
  Manifold(MatVec(Transpose(rotation(c)), VecNeg(translation(c))),
           SO3Inverse(asSO3(c)))

\* SE3Base::compose(m), no Jacobian requested
compose(c, m) ==
  Manifold(VecAdd(MatVec(rotation(c), translation(m)), translation(c)),
           SO3Compose(asSO3(c), asSO3(m)))

\* MANIF_NOT_IMPLEMENTED_YET: the call ends in a failure of its own kind
MANIF_NOT_IMPLEMENTED_YET == [kind |-> "not_implemented"]

\* act() with the J_vout_v block placed before the J_vout_m block
act_WriteBeforeCheck(c, v, want_J_vout_m, want_J_vout_v) ==
  IF want_J_vout_m
    THEN [result |-> MANIF_NOT_IMPLEMENTED_YET,
          J_vout_v |-> IF want_J_vout_v THEN rotation(c) ELSE "unwritten"]
    ELSE [result |-> [kind |-> "vector", value |-> TransformTimes(transform(c), v)],
          J_vout_v |-> IF want_J_vout_v THEN rotation(c) ELSE "unwritten"]

\* SE3Base::act(v, J_vout_m, J_vout_v): what the call returns and what the
\* slot J_vout_v holds afterwards; the flags say which slots the caller passed
act(c, v, want_J_vout_m, want_J_vout_v) ==
  IF want_J_vout_m
    THEN [result |-> MANIF_NOT_IMPLEMENTED_YET, J_vout_v |-> "unwritten"]
    ELSE [result |-> [kind |-> "vector", value |-> TransformTimes(transform(c), v)],
          J_vout_v |-> IF want_J_vout_v THEN rotation(c) ELSE "unwritten"]

---------------------------------------------------------------------------
(* SE3: inputs and calls *)

Translations == [1..3 -> (0 - MaxT)..MaxT]

SE3Elements == {Manifold(tra, quat) : tra \in Translations, quat \in UnitQuaternions}

\* right-hand operands of compose
ComposeOperands ==
  { <<1, 0, 0, 0, 0, 0, 2>>, <<0, 0, 0, 1, 1, 1, 1>>, <<0, -1, 1, 2, 0, 0, 0>> }

\* points handed to act
ActVectors == { <<1, 0, 0>>, <<1, 2, 3>> }

SE3SetIdentity ==
  /\ pc = "idle"
  /\ coeffs' = setIdentity(coeffs)
  /\ call' = [op |-> "setIdentity"]
  /\ result' = [kind |-> "self"]
  /\ UNCHANGED <<J_vout_v, dcvars>>

SE3Inverse ==
  /\ pc = "idle"
  /\ call' = [op |-> "inverse"]
  /\ result' = [kind |-> "manifold", value |-> inverse(coeffs)]
  /\ UNCHANGED <<coeffs, J_vout_v, dcvars>>

\* g.compose(m), m a fresh element
SE3Compose ==
  /\ pc = "idle"
  /\ \E m \in ComposeOperands :
       /\ call' = [op |-> "compose", m |-> m, of_inverse |-> FALSE]
       /\ result' = [kind |-> "manifold", value |-> compose(coeffs, m)]
  /\ UNCHANGED <<coeffs, J_vout_v, dcvars>>

\* g.compose(g.inverse()): the operand is what inverse() has just returned
SE3ComposeInverse ==
  /\ pc = "idle"
  /\ call.op = "inverse"
  /\ result.kind = "manifold"
  /\ call' = [op |-> "compose", m |-> result.value, of_inverse |-> TRUE]
  /\ result' = [kind |-> "manifold", value |-> compose(coeffs, result.value)]
  /\ UNCHANGED <<coeffs, J_vout_v, dcvars>>

\* g.act(v, J_vout_m, J_vout_v), the caller's slot fresh at the call
SE3Act ==
  /\ pc = "idle"
  /\ \E v \in ActVectors, want_m \in BOOLEAN, want_v \in BOOLEAN :
       LET r == act(coeffs, v, want_m, want_v)
       IN  /\ call' = [op |-> "act", v |-> v, J_vout_m |-> want_m, J_vout_v |-> want_v]
           /\ result' = r.result
           /\ J_vout_v' = r.J_vout_v
  /\ UNCHANGED <<coeffs, dcvars>>

\* no decasteljau call in progress
DCIdle ==
  /\ trajectory = <<>>
  /\ degree = 0
  /\ k_interp = 0
  /\ closed_curve = FALSE
  /\ pc = "idle"
  /\ n_segments = 0
  /\ segments_control_points = <<>>
  /\ last_pts_idx = 0
  /\ segment_k_interp = 0
  /\ curve = <<>>
  /\ s = 0
  /\ t = 0
  /\ Qs = <<>>
  /\ i = 0

InitSE3 ==
  /\ coeffs \in SE3Elements
  /\ call = [op |-> "none"]
  /\ result = [kind |-> "none"]
  /\ J_vout_v = "unwritten"
  /\ DCIdle

NextSE3 ==
  \/ SE3SetIdentity
  \/ SE3Inverse
  \/ SE3Compose
  \/ SE3ComposeInverse
  \/ SE3Act

SpecSE3 == InitSE3 /\ [][NextSE3]_vars

---------------------------------------------------------------------------
(* Properties of decasteljau, checked under Spec *)

\* the three checks of lines 31-33 pass
Accepted == size > 2 /\ degree <= size /\ k_interp > 0

\* the segments are built and the closing block of lines 51-69 is behind
AfterSegments == pc \in {"line71", "line76", "line88", "done"}

\* floor(a/b) for b # 0
FloorDiv(a, b) == IF b > 0 THEN a \div b ELSE (0 - a) \div (0 - b)

\* floor((len - degree)/(degree - 1) + 1), a number unless degree = 1
ClaimedNSegments(len, deg) == FloorDiv(len - deg, deg - 1) + 1

\* C1: whenever trajectory length <= 2, or degree > length, or k_interp = 0,
\* the call never gets past the checks of lines 31-33: it sits at the check
\* that fails next or has ended in the precondition failure, no segment has
\* been built and no curve point produced, whatever the other arguments are.
C1_PreconditionFailure ==
  (size <= 2 \/ degree > size \/ k_interp = 0) =>
    /\ pc \in {"line31", "line32", "line33", "precondition_failed"}
    /\ pc = "line32" => size > 2
    /\ pc = "line33" => size > 2 /\ degree <= size
    /\ segments_control_points = <<>>
    /\ curve = <<>>
    /\ n_segments = 0

\* C1 witness: a call with k_interp = 0 and otherwise valid arguments, a closed
\* curve requested, has ended in the precondition failure
C1_Witness ==
  /\ pc = "precondition_failed"
  /\ k_interp = 0
  /\ size = 5
  /\ degree = 3
  /\ closed_curve

\* C2: every returned curve of an accepted call has n_segments *
\* segment_k_interp points with n_segments = floor((len-degree)/(degree-1)+1)
\* (a number) and segment_k_interp = k_interp for degree 2, k_interp*degree
\* otherwise; a closed curve has at most the segment_k_interp samples of the
\* closing segment more.  In particular 5 points, degree 3, k_interp 5, open:
\* 2 segments and 30 points.
C2_CurveLength ==
  pc = "done" =>
    /\ degree # 1
    /\ (size = 5 /\ degree = 3 /\ k_interp = 5 /\ ~closed_curve) =>
         n_segments = 2 /\ Len(curve) = 30
    /\ LET N == ClaimedNSegments(size, degree)
           K == SegKOf(degree, k_interp)
       IN  IF closed_curve
             THEN Len(curve) \in {N * K, N * K + K}
             ELSE Len(curve) = N * K

\* C3: loop closure: the curve returned for a 7-element trajectory with
\* degree 3 and closed_curve set starts and ends at the same point.
C3_LoopClosure ==
  (pc = "done" /\ size = 7 /\ degree = 3 /\ closed_curve) =>
    curve[1] = curve[Len(curve)]

\* C4: a wrap-around segment formed with degree >= 2 has exactly degree
\* control points: the trajectory indices from n_segments*(degree-1) to
\* len-1 in order, then the indices 0, 1, ... (at least one) up to degree.
C4_ClosingSegment ==
  (AfterSegments /\ closed_curve /\ degree >= 2
     /\ Len(segments_control_points) = n_segments + 1) =>
    LET first == ClaimedNSegments(size, degree) * (degree - 1)
        ntrail == size - first
        seg == segments_control_points[Len(segments_control_points)]
    IN  /\ Len(seg) = degree
        /\ ntrail >= 1
        /\ degree - ntrail >= 1
        /\ \A n \in 1..degree :
             seg[n] = IF n <= ntrail THEN first + (n - 1) ELSE n - ntrail - 1

\* C4 witness: 6 points, degree 3: two regular segments end at index 4, the
\* closing segment takes the trailing points 4, 5 and the leading point 0
C4_Witness ==
  /\ pc = "done"
  /\ closed_curve
  /\ size = 6
  /\ degree = 3
  /\ segments_control_points = << <<0, 1, 2>>, <<2, 3, 4>>, <<4, 5, 0>> >>

\* C5 (for degree >= 2, where the regular windows have control points): the
\* wrap-around segment is formed if and only if closed_curve is set and some
\* trajectory point has an index greater than n_segments*(degree-1), the last
\* control point of the last regular window; with every point already a
\* control point of a regular segment no segment is added.
C5_CloseOnlyLeftOver ==
  (AfterSegments /\ degree >= 2) =>
    /\ Len(segments_control_points) \in {n_segments, n_segments + 1}
    /\ (Len(segments_control_points) = n_segments + 1)
         <=> (closed_curve /\ \E idx \in 0..(size - 1) : idx > n_segments * (degree - 1))

\* C6: with degree 2 and an open curve the output is piecewise-linear
\* interpolation: the point at position sg*k_interp + (smp-1) (from 0) is
\* trajectory[sg] (+) (smp/k_interp) * (trajectory[sg+1] (-) trajectory[sg])
\* for every sg in 0..len-2 and smp in 1..k_interp.
C6_PiecewiseLinear ==
  (pc = "done" /\ degree = 2 /\ ~closed_curve) =>
    /\ Len(curve) = (size - 1) * k_interp
    /\ \A sg \in 0..(size - 2), smp \in 1..k_interp :
         curve[sg * k_interp + smp] =
           rplus(At(trajectory, sg),
                 TangentTimes(rminus(At(trajectory, sg + 1), At(trajectory, sg)),
                              smp, k_interp))

\* C6 witness: 4 distinct points, k_interp = 2: the third output point is the
\* midpoint of trajectory[1] and trajectory[2]
C6_Witness ==
  /\ pc = "done"
  /\ degree = 2
  /\ ~closed_curve
  /\ k_interp = 2
  /\ trajectory = TrajectoryOf("distinct", 4)
  /\ curve[3] = [n |-> <<0, 1, 1, 0>>, d |-> 2]
  /\ Len(curve) = 6

\* the samples of segment sg (from 1) that the curve already holds are complete
SegmentSampled(sg) == segment_k_interp > 0 /\ Len(curve) >= sg * segment_k_interp

\* C7: regular segment sg uses the consecutive indices sg*(degree-1) ..
\* sg*(degree-1)+degree-1; the last control point of every segment is the
\* first control point of the next one, the wrap-around segment included;
\* the final sample of every segment is that segment's last control point;
\* no sample of a segment is that segment's starting control point (for
\* pairwise different control points), and the first output point is never
\* trajectory[0].
C7_SegmentChaining ==
  /\ \A sg \in 1..Len(segments_control_points) :
       sg <= n_segments =>
         segments_control_points[sg] =
           [n \in 1..degree |-> (sg - 1) * (degree - 1) + (n - 1)]
  /\ \A sg \in 1..(Len(segments_control_points) - 1) :
       degree >= 1 =>
         segments_control_points[sg][degree] = segments_control_points[sg + 1][1]
  /\ \A sg \in 1..Len(segments_control_points) :
       SegmentSampled(sg) =>
         curve[sg * segment_k_interp] =
           At(trajectory, segments_control_points[sg][degree])
  /\ \A p \in 1..Len(curve) :
       trajectory = TrajectoryOf("distinct", size) =>
         curve[p] # At(trajectory,
                       segments_control_points[(p - 1) \div segment_k_interp + 1][1])
  /\ Len(curve) >= 1 => curve[1] # At(trajectory, 0)

\* C7 witness: 7 distinct points, degree 3, closed curve, k_interp = 1: the
\* third and sixth output points are the shared end points trajectory[2] and
\* trajectory[4], and the closing segment starts at trajectory[6]
C7_Witness ==
  /\ pc = "done"
  /\ closed_curve
  /\ degree = 3
  /\ k_interp = 1
  /\ trajectory = TrajectoryOf("distinct", 7)
  /\ curve[3] = At(trajectory, 2)
  /\ curve[6] = At(trajectory, 4)
  /\ segments_control_points[4][1] = 6
  /\ Len(curve) = 12

\* C10: every call that passes the three checks runs well-defined: no
\* out-of-bounds read or undefined conversion, n_segments >= 1, every segment
\* with exactly degree control points inside the trajectory, every blending
\* round shrinking Qs by one point down to exactly one.
C10_ChecksSufficient ==
  Accepted =>
    /\ pc # "ub"
    /\ pc \in {"line40", "line71", "line76", "line88", "done"} => n_segments >= 1
    /\ \A sg \in 1..Len(segments_control_points) :
         /\ Len(segments_control_points[sg]) = degree
         /\ InBounds(segments_control_points[sg])
    /\ pc = "line88" => Len(Qs) = degree - i /\ Len(Qs) >= 1

---------------------------------------------------------------------------
(* Properties of SE3, checked under SpecSE3 *)

\* C8: g.compose(g.inverse()) is the identity element: zero translation and
\* the identity rotation.
C8_ComposeInverseIsIdentity ==
  (call.op = "compose" /\ call.of_inverse) =>
    /\ result.kind = "manifold"
    /\ translation(result.value) = <<0, 0, 0>>
    /\ rotation(result.value) = << <<1, 0, 0>>, <<0, 1, 0>>, <<0, 0, 1>> >>
    /\ result.value = <<0, 0, 0, 0, 0, 0, 2>>

\* C8 witness: g with translation (1, 0, -1) and the rotation by 120 degrees
\* about (1, 1, 1) has been composed with its inverse (0, 1, -1), conjugate
\* rotation
C8_Witness ==
  /\ call.op = "compose"
  /\ call.of_inverse
  /\ coeffs = <<1, 0, -1, 1, 1, 1, 1>>
  /\ call.m = <<0, 1, -1, -1, -1, -1, 1>>
  /\ result.value = <<0, 0, 0, 0, 0, 0, 2>>

\* C9: act with J_vout_m requested ends in the not-implemented failure, which
\* is no precondition failure, returns no vector and leaves the J_vout_v slot
\* unwritten; without J_vout_m it returns R v + t and J_vout_v, if requested,
\* holds the rotation matrix.
C9_ActJacobian ==
  call.op = "act" =>
    IF call.J_vout_m
      THEN /\ result = [kind |-> "not_implemented"]
           /\ result.kind # "precondition_failed"
           /\ J_vout_v = "unwritten"
      ELSE /\ result.kind = "vector"
           /\ result.value = VecAdd(MatVec(rotation(coeffs), call.v), translation(coeffs))
           /\ call.J_vout_v => J_vout_v = rotation(coeffs)
           /\ ~call.J_vout_v => J_vout_v = "unwritten"

\* C9 witness: both Jacobians requested of a rotated, translated element: the
\* call failed as not implemented and the J_vout_v slot is untouched
C9_Witness ==
  /\ call.op = "act"
  /\ call.J_vout_m
  /\ call.J_vout_v
  /\ coeffs = <<1, 0, -1, 1, 1, 1, 1>>
  /\ result.kind = "not_implemented"
  /\ J_vout_v = "unwritten"

====
